---- MODULE Spec2Model ----
(***************************************************************************)
(* Kigali traffic congestion prediction API (src/app.py).                  *)
(*                                                                         *)
(* The process loads a classifier and a mapping column -> label encoder    *)
(* once, then serves GET /, GET /health, POST /predict, GET /model-info    *)
(* and GET /api-docs.  Every handler is an `async def` without an await,   *)
(* so each handler runs to completion on the event loop: one action per    *)
(* handler, and Send hands the response to the client and frees the loop   *)
(* for the next request.                                                   *)
(*                                                                         *)
(* The classifier is an opaque artifact: whether it has feature_names_in_  *)
(* (and in which order), whether predict raises, which class it returns,   *)
(* and whether predict_proba is absent, raises or returns, are chosen in   *)
(* Init.  Probabilities are counted in tenths (0.8 is 8).  The timestamp   *)
(* field of the responses is left out.                                     *)
(*                                                                         *)
(* encoderLookups, predictArg and probaArg record the calls the request    *)
(* being served has made; memo remembers the first probe request served    *)
(* and its response, for comparison when the same request comes again.     *)
(***************************************************************************)
EXTENDS Integers, Sequences, FiniteSets

VARIABLES
    model,           \* the loaded classifier (app.py:28)
    le_dict,         \* column name -> classes_ of its LabelEncoder (app.py:29)
    request,         \* the request the last handler served
    response,        \* the response it returned
    encoderLookups,  \* columns whose encoder the last request consulted, in order
    predictArg,      \* the table the last request passed to model.predict
    probaArg,        \* the table the last request passed to model.predict_proba
    memo             \* the first probe request served, its response, and whether it came again

vars == <<model, le_dict, request, response, encoderLookups, predictArg, probaArg, memo>>

-----------------------------------------------------------------------------
(* Bounds and program constants *)

HourSlack == 2          \* how far beyond each end of [0,23] the submitted hours go
ExtraClasses == 1       \* class indices the classifier may return beyond the label vocabulary

HourMin == 0
HourMax == 23
DefaultConfidence == 8  \* 0.8, in tenths

CategoricalCols == <<"Day_of_Week", "Public_Holiday", "Road_Name", "Population_Density", "Rainfall">>

AllFields == {"Hour", "Day_of_Week", "Public_Holiday", "Road_Name", "Population_Density", "Rainfall"}

\* column order of the frame built when model.feature_names_in_ exists
NamedBranchOrder == <<"Day_of_Week", "Public_Holiday", "Road_Name", "Population_Density", "Rainfall", "Hour">>

\* column order of the frame built when model.feature_names_in_ raises AttributeError
FallbackOrder == <<"Hour", "Day_of_Week", "Public_Holiday", "Road_Name", "Population_Density", "Rainfall">>

\* the encoders' vocabularies (classes_ is sorted), from the values the test script submits
LoadedEncoders ==
    [Day_of_Week |-> <<"Friday", "Monday", "Saturday">>,
     Public_Holiday |-> <<"No", "Yes">>,
     Road_Name |-> <<"KK 15 Rd", "KN 1 Rd", "RN1">>,
     Population_Density |-> <<"High", "Medium">>,
     Rainfall |-> <<"No", "Yes">>,
     Congestion_Level |-> <<"High", "Low", "Medium">>]

SeqToSet(s) == {s[i] : i \in 1..Len(s)}

-----------------------------------------------------------------------------
(* The classifier artifact *)

\* orders a classifier may declare in feature_names_in_; <<>> stands for the attribute being absent
DeclaredOrders ==
    {NamedBranchOrder,
     <<"Hour", "Day_of_Week", "Public_Holiday", "Road_Name", "Population_Density", "Rainfall">>,
     <<"Road_Name", "Hour", "Rainfall", "Day_of_Week", "Population_Density", "Public_Holiday">>}

ProbabilityRows == {<<2, 5, 3>>}

Classifiers ==
    { m \in [feature_names_in_ : DeclaredOrders \cup {<<>>},
             predict_raises : BOOLEAN,
             predicted_class : 0 .. (Len(LoadedEncoders.Congestion_Level) - 1 + ExtraClasses),
             proba : {"absent", "raises", "returns"},
             probabilities : ProbabilityRows \cup {<<>>}] :
        /\ m.predict_raises => m.predicted_class = 0
        /\ (m.proba = "returns") <=> (m.probabilities # <<>>) }

HasFeatureNames(m) == m.feature_names_in_ # <<>>

-----------------------------------------------------------------------------
(* Requests *)

Hours == ((HourMin - HourSlack) .. HourMin) \cup (HourMax .. (HourMax + HourSlack))

ExampleBody ==
    [Hour |-> 8, Day_of_Week |-> "Monday", Public_Holiday |-> "No", Road_Name |-> "KN 1 Rd",
     Population_Density |-> "High", Rainfall |-> "No", missing |-> {}, mistyped |-> {}]

\* the payload of test_invalid_input
InvalidTestBody ==
    [Hour |-> 25, Day_of_Week |-> "InvalidDay", Public_Holiday |-> "No", Road_Name |-> "InvalidRoad",
     Population_Density |-> "High", Rainfall |-> "No Rain", missing |-> {}, mistyped |-> {}]

WellFormedBodies ==
    [Hour : Hours,
     Day_of_Week : {"Monday", "InvalidDay", ""},
     Public_Holiday : {"No", ""},
     Road_Name : {"KN 1 Rd", "InvalidRoad", ""},
     Population_Density : {"High", ""},
     Rainfall : {"No", "No Rain", ""},
     missing : {{}},
     mistyped : {{}}]

\* bodies with one field left out, or with an Hour that is no integer
MalformedBodies ==
    {[ExampleBody EXCEPT !.missing = {f}] : f \in AllFields}
        \cup {[ExampleBody EXCEPT !.mistyped = {"Hour"}]}

Bodies == WellFormedBodies \cup MalformedBodies \cup {ExampleBody}

NoBody ==
    [Hour |-> 0, Day_of_Week |-> "", Public_Holiday |-> "", Road_Name |-> "",
     Population_Density |-> "", Rainfall |-> "", missing |-> AllFields, mistyped |-> {}]

ProbeBodies ==
    {ExampleBody,
     InvalidTestBody,
     [ExampleBody EXCEPT !.Hour = 0, !.Road_Name = "InvalidRoad"]}

-----------------------------------------------------------------------------
(* Request Schema: class TrafficInput *)

\* le=24 in place of le=23
HourInRangeUpTo24(h) == HourMin <= h /\ h <= HourMax + 1

HourInRange(h) == HourMin <= h /\ h <= HourMax

\* Hour declared without ge / le
ValidationErrorsNoRange(body) == body.missing \cup body.mistyped

\* the fields pydantic reports; an empty set means the body is accepted
ValidationErrors(body) ==
    body.missing
        \cup body.mistyped
        \cup (IF "Hour" \notin (body.missing \cup body.mistyped) /\ ~HourInRange(body.Hour)
              THEN {"Hour"} ELSE {})

-----------------------------------------------------------------------------
(* Feature Assembler *)

AssembleColumns(m) == IF HasFeatureNames(m) THEN NamedBranchOrder ELSE FallbackOrder

-----------------------------------------------------------------------------
(* Categorical Encoder *)

IsKnown(classes, v) == v \in SeqToSet(classes)

\* codes counted from 1
TransformFromOne(classes, v) == CHOOSE i \in 1..Len(classes) : classes[i] = v

\* LabelEncoder.transform: the position of v in classes_, from 0
Transform(classes, v) == (CHOOSE i \in 1..Len(classes) : classes[i] = v) - 1

\* the error always blames the first column of the loop
FirstUnknownBlamesFirstColumn(encs, body) ==
    IF \A i \in 1..Len(CategoricalCols) : IsKnown(encs[CategoricalCols[i]], body[CategoricalCols[i]])
    THEN 0 ELSE 1

\* index in categorical_cols of the first column whose value is unknown; 0 when all are known
FirstUnknown(encs, body) ==
    LET bad == {i \in 1..Len(CategoricalCols) :
                   ~IsKnown(encs[CategoricalCols[i]], body[CategoricalCols[i]])}
    IN IF bad = {} THEN 0 ELSE CHOOSE i \in bad : \A j \in bad : i <= j

\* the columns the loop at app.py:131 visits before it stops
LookedUp(encs, body) ==
    LET k == FirstUnknown(encs, body)
    IN IF k = 0 THEN CategoricalCols ELSE SubSeq(CategoricalCols, 1, k)

EncodedValue(encs, body, col) ==
    IF col = "Hour" THEN body.Hour ELSE Transform(encs[col], body[col])

\* the frame after the encoding loop: one row, columns in `order`
EncodedTable(encs, body, order) ==
    [i \in 1..Len(order) |-> [name |-> order[i], val |-> EncodedValue(encs, body, order[i])]]

\* fit_transform in place of transform: each encoder is refitted to the submitted value
EncodersAfterFitTransform(encs, body) ==
    [c \in DOMAIN encs |-> IF c \in SeqToSet(CategoricalCols) THEN <<body[c]>> ELSE encs[c]]

\* the encoder mapping after the loop: transform does not refit
EncodersAfterTransform(encs, body) == encs

-----------------------------------------------------------------------------
(* Predictor *)

ClassInRange(classes, idx) == 0 <= idx /\ idx < Len(classes)

\* LabelEncoder.inverse_transform on an index in range
InverseTransform(classes, idx) == classes[idx + 1]

\* min in place of max
SeqMin(s) == CHOOSE x \in SeqToSet(s) : \A y \in SeqToSet(s) : x <= y

SeqMax(s) == CHOOSE x \in SeqToSet(s) : \A y \in SeqToSet(s) : y <= x

\* the probability reported as a percentage
ConfidencePercent(m) ==
    IF m.proba = "returns" THEN 10 * SeqMax(m.probabilities) ELSE 10 * DefaultConfidence

\* app.py:145-149
Confidence(m) == IF m.proba = "returns" THEN SeqMax(m.probabilities) ELSE DefaultConfidence

PredictErrorText == "model.predict raised"
UnseenLabelText == "y contains previously unseen labels"

\* the classifier after a call to predict / predict_proba: inference does not refit
ModelAfterPredict(m) == m

-----------------------------------------------------------------------------
(* Responses *)

NoDetail == [kind |-> "", fields |-> {}, col |-> "", accepted |-> <<>>, message |-> <<>>]

Ok200(label, conf) ==
    [status |-> 200, Congestion_Level |-> label, confidence_score |-> conf, detail |-> NoDetail]

\* FastAPI's answer to a pydantic validation error
Unprocessable422(fields) ==
    [status |-> 422, Congestion_Level |-> "", confidence_score |-> 0,
     detail |-> [NoDetail EXCEPT !.kind = "validation", !.fields = fields]]

\* app.py:134-137
BadRequest400(col, classes) ==
    [status |-> 400, Congestion_Level |-> "", confidence_score |-> 0,
     detail |-> [NoDetail EXCEPT !.kind = "invalid value", !.col = col, !.accepted = classes]]

\* app.py:163: detail = f"Prediction failed: {str(e)}"
ServerErrorDetail(text) == <<"Prediction failed: ", text>>

\* the generic handler answering 400
ServerErrorAs400(text) ==
    [status |-> 400, Congestion_Level |-> "", confidence_score |-> 0,
     detail |-> [NoDetail EXCEPT !.kind = "prediction failed", !.message = ServerErrorDetail(text)]]

ServerError500(text) ==
    [status |-> 500, Congestion_Level |-> "", confidence_score |-> 0,
     detail |-> [NoDetail EXCEPT !.kind = "prediction failed", !.message = ServerErrorDetail(text)]]

-----------------------------------------------------------------------------
(* State machine *)

NoRequest == [endpoint |-> "", body |-> NoBody]
NoResponse == [status |-> 0]

\* the event loop is free: no request is being served
Idle == request = NoRequest /\ response = NoResponse

Init ==
    /\ model \in Classifiers
    /\ le_dict = LoadedEncoders
    /\ request = NoRequest
    /\ response = NoResponse
    /\ encoderLookups = <<>>
    /\ predictArg = <<>>
    /\ probaArg = <<>>
    /\ memo = <<>>

Outcome(resp, lookups, predict, proba) ==
    [resp |-> resp, lookups |-> lookups, predict |-> predict, proba |-> proba]

\* what POST /predict answers, and the calls it makes on the way
PredictOutcome(m, encs, body) ==
    LET errs == ValidationErrors(body)
        k == FirstUnknown(encs, body)
        X == EncodedTable(encs, body, AssembleColumns(m))
    IN IF errs # {}
       THEN Outcome(Unprocessable422(errs), <<>>, <<>>, <<>>)
       ELSE IF k # 0
       THEN Outcome(BadRequest400(CategoricalCols[k], encs[CategoricalCols[k]]),
                    LookedUp(encs, body), <<>>, <<>>)
       ELSE IF m.predict_raises
       THEN Outcome(ServerError500(PredictErrorText), CategoricalCols, X, <<>>)
       ELSE IF ~ClassInRange(encs.Congestion_Level, m.predicted_class)
       THEN Outcome(ServerError500(UnseenLabelText), CategoricalCols, X, <<>>)
       ELSE Outcome(Ok200(InverseTransform(encs.Congestion_Level, m.predicted_class),
                          Confidence(m)),
                    CategoricalCols, X, IF m.proba = "absent" THEN <<>> ELSE X)

\* POST /predict
Predict(body) ==
    LET out == PredictOutcome(model, le_dict, body)
        served == [endpoint |-> "/predict", body |-> body]
    IN /\ Idle
       /\ request' = served
       /\ response' = out.resp
       /\ encoderLookups' = out.lookups
       /\ predictArg' = out.predict
       /\ probaArg' = out.proba
       /\ le_dict' = IF ValidationErrors(body) = {} /\ FirstUnknown(le_dict, body) = 0
                     THEN EncodersAfterTransform(le_dict, body) ELSE le_dict
       /\ model' = IF out.predict # <<>> THEN ModelAfterPredict(model) ELSE model
       /\ memo' = IF memo = <<>> /\ body \in ProbeBodies
                  THEN <<[body |-> body, resp |-> out.resp, again |-> FALSE]>>
                  ELSE IF memo # <<>> /\ memo[1].body = body
                  THEN <<[memo[1] EXCEPT !.again = TRUE]>>
                  ELSE memo

NoCalls ==
    /\ encoderLookups' = <<>>
    /\ predictArg' = <<>>
    /\ probaArg' = <<>>

\* GET /health
Health ==
    /\ Idle
    /\ request' = [endpoint |-> "/health", body |-> NoBody]
    /\ response' = [status |-> 200, health |-> "healthy", model_loaded |-> TRUE]
    /\ NoCalls
    /\ UNCHANGED <<model, le_dict, memo>>

\* GET /model-info
ModelInfo ==
    /\ Idle
    /\ request' = [endpoint |-> "/model-info", body |-> NoBody]
    /\ response' = [status |-> 200,
                    model_type |-> "type(model).__name__",
                    available_categories |-> le_dict,
                    expected_features |-> model.feature_names_in_]
    /\ NoCalls
    /\ UNCHANGED <<model, le_dict, memo>>

\* GET /api-docs
ApiDocs ==
    /\ Idle
    /\ request' = [endpoint |-> "/api-docs", body |-> NoBody]
    /\ response' = [status |-> 200, message |-> "API documentation available at /docs"]
    /\ NoCalls
    /\ UNCHANGED <<model, le_dict, memo>>

\* GET /
Root ==
    /\ Idle
    /\ request' = [endpoint |-> "/", body |-> NoBody]
    /\ response' = [status |-> 200, template |-> "index.html"]
    /\ NoCalls
    /\ UNCHANGED <<model, le_dict, memo>>

\* the response goes out to the client; the loop takes the next request
Send ==
    /\ ~Idle
    /\ request' = NoRequest
    /\ response' = NoResponse
    /\ NoCalls
    /\ UNCHANGED <<model, le_dict, memo>>

PredictAny == \E body \in Bodies : Predict(body)

Next == PredictAny \/ Health \/ ModelInfo \/ ApiDocs \/ Root \/ Send

Spec == Init /\ [][Next]_vars

-----------------------------------------------------------------------------
(* Properties *)

ServedPredict == request.endpoint = "/predict" /\ response # NoResponse

Body == request.body

WellFormed(b) == b.missing = {} /\ b.mistyped = {}

PassesSchema(b) == WellFormed(b) /\ b.Hour \in 0..23

Vocabulary(col) == {le_dict[col][i] : i \in 1..Len(le_dict[col])}

UnknownCols(b) == {c \in AllFields \ {"Hour"} : b[c] \notin Vocabulary(c)}

EmptyCols(b) == {c \in AllFields \ {"Hour"} : b[c] = ""}

ColumnsOf(table) == [i \in 1..Len(table) |-> table[i].name]

InferenceFails ==
    model.predict_raises \/ model.predicted_class \notin 0..(Len(le_dict.Congestion_Level) - 1)

ValidOutcome200 ==
    /\ response.status = 200
    /\ response.confidence_score \in 0..10
    /\ response.Congestion_Level \in Vocabulary("Congestion_Level")

\* C1 as stated: every request with Hour in [0,23] and all five categorical values in
\* their vocabularies is answered 200 with confidence_score in [0,1] and a
\* Congestion_Level from the label vocabulary.
C1_ValidAlways200 ==
    (ServedPredict /\ PassesSchema(Body) /\ UnknownCols(Body) = {}) => ValidOutcome200

\* C1 amended: such a request is answered 200 with confidence_score in [0,1] and a
\* Congestion_Level from the label vocabulary, unless model.predict raises or returns
\* a class the label encoder cannot decode; then, and only then, it is answered 500.
C1_Valid200Or500 ==
    (ServedPredict /\ PassesSchema(Body) /\ UnknownCols(Body) = {}) =>
        IF InferenceFails THEN response.status = 500 ELSE ValidOutcome200

C1_Witness ==
    /\ ServedPredict /\ PassesSchema(Body) /\ UnknownCols(Body) = {}
    /\ response.status = 200
    /\ model.proba = "returns"
    /\ response.Congestion_Level = "Medium"

\* C2: a request whose Hour lies outside [0,23] is rejected with 422 naming Hour, and
\* neither an encoder lookup nor predict nor predict_proba is made for it.
C2_HourOutOfRangeRejected ==
    (ServedPredict /\ WellFormed(Body) /\ Body.Hour \notin 0..23) =>
        /\ response.status = 422
        /\ "Hour" \in response.detail.fields
        /\ encoderLookups = <<>>
        /\ predictArg = <<>>
        /\ probaArg = <<>>

C2_Witness ==
    /\ ServedPredict /\ WellFormed(Body)
    /\ Body.Hour = 24
    /\ UnknownCols(Body) = {}
    /\ response.status = 422

\* C3: a request that passes the schema and has a categorical value outside its
\* column's vocabulary is answered 400; the detail names a column whose submitted
\* value is unknown and lists exactly that column's accepted values.
C3_UnknownCategory400 ==
    (ServedPredict /\ PassesSchema(Body) /\ UnknownCols(Body) # {}) =>
        /\ response.status = 400
        /\ response.detail.col \in UnknownCols(Body)
        /\ response.detail.accepted = le_dict[response.detail.col]

C3_Witness ==
    /\ ServedPredict /\ PassesSchema(Body)
    /\ UnknownCols(Body) = {"Road_Name", "Rainfall"}
    /\ response.status = 400
    /\ response.detail.col = "Road_Name"
    /\ response.detail.accepted = <<"KK 15 Rd", "KN 1 Rd", "RN1">>

\* C4 (test_invalid_input): a request with an out-of-range Hour together with
\* categorical values outside their vocabularies is answered exactly 400.
C4_InvalidInput400 ==
    (ServedPredict /\ WellFormed(Body) /\ Body.Hour \notin 0..23 /\ UnknownCols(Body) # {}) =>
        response.status = 400

\* C5: when the classifier declares feature_names_in_, the table passed to predict
\* and to predict_proba has its columns in exactly the declared order.
C5_DeclaredOrderUsed ==
    (ServedPredict /\ model.feature_names_in_ # <<>>) =>
        /\ predictArg # <<>> => ColumnsOf(predictArg) = model.feature_names_in_
        /\ probaArg # <<>> => ColumnsOf(probaArg) = model.feature_names_in_

\* C6 as stated: a request that is not rejected by the schema has Hour in [0,23] and
\* five non-empty strings; one with an empty string is rejected by the schema and
\* never reaches the encoder.
C6_EmptyStringRejectedBySchema ==
    ServedPredict =>
        /\ response.status # 422 => (Body.Hour \in 0..23 /\ EmptyCols(Body) = {})
        /\ (WellFormed(Body) /\ EmptyCols(Body) # {}) =>
               (response.status = 422 /\ encoderLookups = <<>>)

\* C6 amended: a request that is not rejected by the schema has all six fields
\* present and Hour in [0,23]; the schema accepts empty strings, so a request with
\* a valid Hour and an empty categorical field reaches the encoder, which answers
\* 400 when the empty string is not in that column's vocabulary.
C6_EmptyStringReachesEncoder ==
    ServedPredict =>
        /\ response.status # 422 => (WellFormed(Body) /\ Body.Hour \in 0..23)
        /\ (PassesSchema(Body) /\ EmptyCols(Body) # {}) =>
               /\ response.status # 422
               /\ encoderLookups # <<>>
               /\ (EmptyCols(Body) \cap UnknownCols(Body) # {}) => response.status = 400

C6_Witness ==
    /\ ServedPredict /\ PassesSchema(Body)
    /\ EmptyCols(Body) = {"Rainfall"}
    /\ UnknownCols(Body) = {"Rainfall"}
    /\ response.status = 400
    /\ response.detail.col = "Rainfall"
    /\ Len(encoderLookups) = 5

ExceptionTexts == {PredictErrorText, UnseenLabelText}

MessageParts == {response.detail.message[i] : i \in 1..Len(response.detail.message)}

\* C7 as stated: a failure of predict or of the label decoding after a successful
\* encoding is answered 500 with a body that does not contain the exception's text;
\* an encoder's 400 is never turned into a 500.
C7_OpaqueServerError ==
    (ServedPredict /\ PassesSchema(Body)) =>
        /\ (UnknownCols(Body) = {} /\ InferenceFails) =>
               (response.status = 500 /\ MessageParts \cap ExceptionTexts = {})
        /\ UnknownCols(Body) # {} => response.status = 400

\* C7 amended: such a failure is answered 500, never 200, 400 or 422, and the body is
\* "Prediction failed: " followed by the text of the internal exception; an
\* encoder's 400 is never turned into a 500.
C7_ServerErrorCarriesText ==
    (ServedPredict /\ PassesSchema(Body)) =>
        /\ (UnknownCols(Body) = {} /\ InferenceFails) =>
               /\ response.status = 500
               /\ Len(response.detail.message) = 2
               /\ response.detail.message[1] = "Prediction failed: "
               /\ response.detail.message[2] =
                      (IF model.predict_raises THEN PredictErrorText ELSE UnseenLabelText)
        /\ UnknownCols(Body) # {} => response.status = 400

C7_Witness ==
    /\ ServedPredict /\ PassesSchema(Body) /\ UnknownCols(Body) = {}
    /\ ~model.predict_raises
    /\ model.predicted_class = 3
    /\ response.status = 500
    /\ predictArg # <<>>

\* C8: when the class prediction succeeds, confidence_score is the largest
\* probability of the row if predict_proba is present and returns, and 0.8 if it
\* is absent or raises; either way the answer is 200.
C8_ConfidenceOrDefault ==
    (ServedPredict /\ predictArg # <<>> /\ ~InferenceFails) =>
        /\ response.status = 200
        /\ IF model.proba = "returns"
           THEN /\ \E i \in 1..Len(model.probabilities) :
                       response.confidence_score = model.probabilities[i]
                /\ \A i \in 1..Len(model.probabilities) :
                       model.probabilities[i] <= response.confidence_score
           ELSE response.confidence_score = 8

C8_Witness ==
    /\ ServedPredict /\ predictArg # <<>>
    /\ model.proba = "raises"
    /\ probaArg # <<>>
    /\ response.status = 200
    /\ response.confidence_score = 8

SameAnswer(r1, r2) ==
    /\ r1.status = r2.status
    /\ r1.Congestion_Level = r2.Congestion_Level
    /\ r1.confidence_score = r2.confidence_score

\* C9: no handler changes the loaded classifier or the encoder mapping, and a
\* /predict request served again, whatever was served in between, gets the status,
\* Congestion_Level and confidence_score it got the first time.
C9_SameRequestSameAnswer ==
    [][/\ model' = model
       /\ le_dict' = le_dict
       /\ (memo' # <<>> /\ request'.endpoint = "/predict" /\ request'.body = memo'[1].body) =>
              SameAnswer(response', memo'[1].resp)]_vars

C9_Witness ==
    /\ ServedPredict
    /\ memo # <<>>
    /\ memo[1].again
    /\ Body = memo[1].body
    /\ response.status = 200
    /\ SameAnswer(response, memo[1].resp)

CodeOf(col, v) == CHOOSE n \in 0..(Len(le_dict[col]) - 1) : le_dict[col][n + 1] = v

HourUnencodedRestCoded ==
    \A i \in 1..Len(predictArg) :
        predictArg[i].val = IF predictArg[i].name = "Hour"
                            THEN Body.Hour
                            ELSE CodeOf(predictArg[i].name, Body[predictArg[i].name])

\* C10 as stated: when the classifier declares no feature names, the table passed to
\* predict has the columns Day_of_Week, Public_Holiday, Road_Name,
\* Population_Density, Rainfall, Hour in that order, Hour unencoded and the five
\* categorical columns as integer codes.
C10_FallbackHourLast ==
    (ServedPredict /\ predictArg # <<>> /\ model.feature_names_in_ = <<>>) =>
        /\ ColumnsOf(predictArg) =
               <<"Day_of_Week", "Public_Holiday", "Road_Name", "Population_Density", "Rainfall", "Hour">>
        /\ HourUnencodedRestCoded

\* C10 amended: when the classifier declares no feature names, the table passed to
\* predict has the columns Hour, Day_of_Week, Public_Holiday, Road_Name,
\* Population_Density, Rainfall in that order (Hour first), Hour unencoded and the
\* five categorical columns as integer codes.
C10_FallbackHourFirst ==
    (ServedPredict /\ predictArg # <<>> /\ model.feature_names_in_ = <<>>) =>
        /\ ColumnsOf(predictArg) =
               <<"Hour", "Day_of_Week", "Public_Holiday", "Road_Name", "Population_Density", "Rainfall">>
        /\ HourUnencodedRestCoded

C10_Witness ==
    /\ ServedPredict
    /\ model.feature_names_in_ = <<>>
    /\ Body.Hour = 23
    /\ predictArg = <<[name |-> "Hour", val |-> 23],
                      [name |-> "Day_of_Week", val |-> 1],
                      [name |-> "Public_Holiday", val |-> 0],
                      [name |-> "Road_Name", val |-> 1],
                      [name |-> "Population_Density", val |-> 0],
                      [name |-> "Rainfall", val |-> 0]>>

====
